---- MODULE Spec2Model ----
(***************************************************************************)
(* Model of the Usage Stream supervisor of costa-vscode                    *)
(* (src/src/usageStream.ts, class UsageStream) on top of the CLI bridge    *)
(* (src/src/cli.ts).                                                       *)
(*                                                                         *)
(* Time is counted in whole seconds.  The runtime's timer table, the       *)
(* fetchUsageData calls in flight and the three private fields of the      *)
(* class are the state; one action per method call or callback.            *)
(*                                                                         *)
(* Spec / FairSpec : the UsageStream supervisor.                           *)
(* LoginSpec       : one run of the costa.login command and its poller.    *)
(* BridgeSpec      : one call of a facade operation of cli.ts, on every    *)
(*                   host, with its child process.                          *)
(***************************************************************************)
EXTENDS Integers, Sequences, FiniteSets, Bags, TLC

\* ---------------------------------------------------------------- constants
\* setInterval(..., 3000), in seconds
PollIntervalSec == 3
\* setTimeout(..., 5000), in seconds
ReconnectDelaySec == 5
\* execFile(..., { timeout: 15_000 }), in seconds
RunTimeoutSec == 15
\* the login poller's setInterval(..., 3000), in seconds
LoginPollSec == 3
\* loginResult.timeout_seconds ?? 600
DefaultLoginTimeoutSec == 600

\* ------------------------------------------------------------------- bounds
\* longest duration of one status subprocess the environment produces
MaxCallSec == 3
\* manual refreshes (costa.refreshPoints) in flight at the same time
MaxManual == 1

\* --------------------------------------------------------------- data model
\* a timer handle field holding null
NoTimer == 0
\* a missing field of the parsed JSON
Undefined == "undefined"
\* values of points / total_points: a number ("n:..."), a sentinel string
\* ("s:...") or missing; the pairs of them a logged-in status carries here
PointPairs == {<<"n:5", "s:inf">>, <<"s:inf", "n:5">>, <<Undefined, Undefined>>}

\* outcomes of cli.status(): a rejection, or a parsed StatusResult
StatusErr == [ok |-> FALSE, logged_in |-> FALSE, points |-> Undefined, total_points |-> Undefined]
StatusResults ==
    {[ok |-> TRUE, logged_in |-> TRUE, points |-> p[1], total_points |-> p[2]] : p \in PointPairs}
    \cup {[ok |-> TRUE, logged_in |-> FALSE, points |-> Undefined, total_points |-> Undefined]}
StatusOutcomes == StatusResults \cup {StatusErr}

\* x ?? d
Coalesce(x, d) == IF x = Undefined THEN d ELSE x

VARIABLES
    isConnecting,      \* UsageStream.isConnecting
    pollInterval,      \* UsageStream.pollInterval: a handle or NoTimer
    reconnectTimeout,  \* UsageStream.reconnectTimeout: a handle or NoTimer
    timers,            \* the runtime's armed timers: [id, kind, rem]
    calls,             \* fetchUsageData calls in flight: a bag of [kind, age]
    stopped,           \* disconnect() returned and no caller has called connect() since
    lastAct,           \* the last step taken and what it produced
    loginPhase,        \* where the costa.login command is
    loginResult,       \* what cli.login() settled with
    loginTimers,       \* the timers the command armed: [kind, rem]
    loginCalls,        \* cli.status() calls of poller ticks in flight: a bag of [kind, age]
    loginElapsed,      \* seconds since the command armed its timers
    loginSignals,      \* how often the poller has signalled success
    loginAct,          \* the last step of the command or poller and what it produced
    platform,          \* process.platform
    arch,              \* process.arch
    ctx,               \* cli.ts extensionContext
    bundledExists,     \* existsSync(bundledBin)
    onPath,            \* the OS finds "costa" on PATH
    proc,              \* the facade call and its child process
    child,             \* how the child process ended
    runResult,         \* what run() settled with
    facResult          \* what the facade operation settled with

\* the UsageStream supervisor
uvars == <<isConnecting, pollInterval, reconnectTimeout, timers, calls, stopped, lastAct>>
\* the costa.login command
lvars == <<loginPhase, loginResult, loginTimers, loginCalls, loginElapsed, loginSignals,
           loginAct>>
\* the CLI bridge
bvars == <<platform, arch, ctx, bundledExists, onPath, proc, child, runResult, facResult>>
vars == <<uvars, lvars, bvars>>

\* the supervisor's fields together with the timers and calls it owns
St == [isConnecting |-> isConnecting, pollInterval |-> pollInterval,
       reconnectTimeout |-> reconnectTimeout, timers |-> timers, calls |-> calls]

\* no event emitted
NoEmit == << >>
\* a step that received no status outcome
NoRes == [ok |-> FALSE, logged_in |-> FALSE, points |-> "none", total_points |-> "none"]

\* a step that ran no fetchUsageData to its end
NoFetch == [emit |-> NoEmit, thrown |-> FALSE]

\* ------------------------------------------------------------ timer runtime
TimerIds(ts) == {t.id : t \in ts}

\* a handle no armed timer and no field of s refers to
FreshTimer(s) ==
    LET used == TimerIds(s.timers) \cup {s.pollInterval, s.reconnectTimeout, NoTimer}
    IN  CHOOSE i \in 1..(Cardinality(used) + 1) :
            i \notin used /\ \A j \in 1..(i - 1) : j \in used

\* how many of the armed timers ts are no longer armed in ts2
Cancelled(ts, ts2) == Cardinality({t \in ts : t.id \notin TimerIds(ts2)})

\* clearInterval(h) / clearTimeout(h): a no-op on a handle that is not armed
ClearTimer(ts, h) == {t \in ts : t.id # h}

\* a fetchUsageData call begins: cli.status() is issued and awaited
StartCall(s, kind) ==
    [s EXCEPT !.calls = @ (+) SetToBag({[kind |-> kind, age |-> 0]})]

\* the call c has settled
EndCall(s, c) == [s EXCEPT !.calls = @ (-) SetToBag({c})]

\* the number of calls of the given kinds in flight
InFlight(cs, kinds) ==
    BagCardinality([c \in {d \in BagToSet(cs) : d.kind \in kinds} |-> cs[c]])

\* what is left of the timeout when a call of age a is still running
Min(a, b) == IF a < b THEN a ELSE b
MaxAge == Min(MaxCallSec, RunTimeoutSec)

\* ------------------------------------------------------ UsageStream methods
\* setupPolling(): clear the existing interval, arm a new one
SetupPolling(s) ==
    LET s1 == IF s.pollInterval # NoTimer
              THEN [s EXCEPT !.timers = ClearTimer(@, s.pollInterval)]
              ELSE s
        id == FreshTimer(s)
    IN  [s1 EXCEPT !.timers = @ \cup {[id |-> id, kind |-> "poll", rem |-> PollIntervalSec]},
                   !.pollInterval = id]

\* scheduleReconnect() that arms without clearing the pending timeout
ScheduleReconnectNoClear(s) ==
    LET id == FreshTimer(s)
    IN  [s EXCEPT !.timers = @ \cup {[id |-> id, kind |-> "reconnect", rem |-> ReconnectDelaySec]},
                  !.reconnectTimeout = id]

\* scheduleReconnect(): clear the existing timeout, arm a new one
ScheduleReconnect(s) ==
    LET s1 == IF s.reconnectTimeout # NoTimer
              THEN [s EXCEPT !.timers = ClearTimer(@, s.reconnectTimeout)]
              ELSE s
        id == FreshTimer(s)
    IN  [s1 EXCEPT !.timers = @ \cup {[id |-> id, kind |-> "reconnect", rem |-> ReconnectDelaySec]},
                   !.reconnectTimeout = id]

\* disconnect() that leaves the polling interval alone
DisconnectReconnectOnly(s) ==
    IF s.reconnectTimeout # NoTimer
    THEN [s EXCEPT !.timers = ClearTimer(@, s.reconnectTimeout),
                   !.reconnectTimeout = NoTimer]
    ELSE s

\* disconnect()
Disconnect(s) ==
    LET s1 == IF s.reconnectTimeout # NoTimer
              THEN [s EXCEPT !.timers = ClearTimer(@, s.reconnectTimeout),
                             !.reconnectTimeout = NoTimer]
              ELSE s
    IN  IF s1.pollInterval # NoTimer
        THEN [s1 EXCEPT !.timers = ClearTimer(@, s1.pollInterval),
                        !.pollInterval = NoTimer]
        ELSE s1

\* fetchUsageData() that coerces points and total_points to numbers
FetchUsageDataCoerces(r) ==
    IF ~r.ok THEN [emit |-> NoEmit, thrown |-> TRUE]
    ELSE IF ~r.logged_in THEN [emit |-> NoEmit, thrown |-> FALSE]
    ELSE [emit |-> <<[points |-> IF r.points \in {"n:5"} THEN r.points ELSE "n:0",
                      total_points |-> IF r.total_points \in {"n:5"}
                                       THEN r.total_points ELSE "n:0",
                      context_length |-> "s:-"]>>,
          thrown |-> FALSE]

\* fetchUsageData() without the logged_in test
FetchUsageDataNoLoginTest(r) ==
    IF ~r.ok THEN [emit |-> NoEmit, thrown |-> TRUE]
    ELSE [emit |-> <<[points |-> Coalesce(r.points, "n:0"),
                      total_points |-> Coalesce(r.total_points, "n:0"),
                      context_length |-> "s:-"]>>,
          thrown |-> FALSE]

\* fetchUsageData() that treats a logged-out account as a failure
FetchUsageDataThrowsLoggedOut(r) ==
    IF ~r.ok \/ ~r.logged_in THEN [emit |-> NoEmit, thrown |-> TRUE]
    ELSE [emit |-> <<[points |-> Coalesce(r.points, "n:0"),
                      total_points |-> Coalesce(r.total_points, "n:0"),
                      context_length |-> "s:-"]>>,
          thrown |-> FALSE]

\* fetchUsageData() once cli.status() has settled with outcome r:
\* the events it emits and whether it rejects
FetchUsageData(r) ==
    IF ~r.ok THEN [emit |-> NoEmit, thrown |-> TRUE]
    ELSE IF ~r.logged_in THEN [emit |-> NoEmit, thrown |-> FALSE]
    ELSE LET data == [points |-> Coalesce(r.points, "n:0"),
                      total_points |-> Coalesce(r.total_points, "n:0"),
                      context_length |-> "s:-"]
         IN  IF data.points # Undefined \/ data.total_points # Undefined
                \/ data.context_length # Undefined
             THEN [emit |-> <<data>>, thrown |-> FALSE]
             ELSE [emit |-> NoEmit, thrown |-> FALSE]

\* connect() without its reentrancy guard
ConnectNoGuard(s) == StartCall([s EXCEPT !.isConnecting = TRUE], "connect")

\* connect() up to its await: the guard, the flag, the fetch it starts
Connect(s) ==
    IF s.isConnecting THEN s
    ELSE StartCall([s EXCEPT !.isConnecting = TRUE], "connect")

\* connect() whose catch also falls through to setupPolling()
ConnectResumeAlwaysPolls(s, f) ==
    LET s1 == IF ~f.thrown THEN s ELSE ScheduleReconnect(s)
    IN  [st |-> [SetupPolling(s1) EXCEPT !.isConnecting = FALSE], rejected |-> FALSE]

\* connect() that clears the flag at the end of try instead of in finally
ConnectResumeNoFinally(s, f) ==
    IF ~f.thrown
    THEN [st |-> [SetupPolling(s) EXCEPT !.isConnecting = FALSE], rejected |-> FALSE]
    ELSE [st |-> ScheduleReconnect(s), rejected |-> FALSE]

\* connect() whose catch only logs
ConnectResumeNoReconnect(s, f) ==
    LET s1 == IF ~f.thrown THEN SetupPolling(s) ELSE s
    IN  [st |-> [s1 EXCEPT !.isConnecting = FALSE], rejected |-> FALSE]

\* connect() after its await: try / catch / finally on the fetch's result f.
\* The result state and whether connect() itself rejects.
ConnectResume(s, f) ==
    LET s1 == IF ~f.thrown THEN SetupPolling(s) ELSE ScheduleReconnect(s)
    IN  [st |-> [s1 EXCEPT !.isConnecting = FALSE], rejected |-> FALSE]

\* the .catch of the interval callback on the fetch's result f
PollCatch(s, f) == IF f.thrown THEN ScheduleReconnect(s) ELSE s

\* the interval callback without .catch: the rejection of the fetch escapes
PollCallbackNoCatch(s, f) == [st |-> s, rejected |-> f.thrown]

\* the interval callback once its fetch gave f: fetchUsageData().catch(...).
\* The handler logs and schedules; it cannot throw, so the chain resolves.
PollCallback(s, f) == [st |-> PollCatch(s, f), rejected |-> FALSE]

\* costa.refreshPoints whose failed fetch also schedules a reconnect
RefreshPointsReconnects(s, f) == [st |-> PollCatch(s, f), rejected |-> f.thrown]

\* costa.refreshPoints once the fetchUsageData() it awaits gave f: the promise
\* rejects to the command when the fetch threw; no field of the stream is touched
RefreshPoints(s, f) == [st |-> s, rejected |-> f.thrown]

\* ------------------------------------------------------------------ actions
\* the step op leaves the supervisor in s.  noop: connect() returned at its
\* guard; r: the status outcome received; f: what fetchUsageData did with it;
\* rejected: the promise the step settles (of connect(), of the interval
\* callback's chain, of the caller's fetchUsageData()) rejected; before: the timers that were
\* armed and not firing when the step began
Install(s, op, noop, r, f, rejected, before) ==
    /\ isConnecting' = s.isConnecting
    /\ pollInterval' = s.pollInterval
    /\ reconnectTimeout' = s.reconnectTimeout
    /\ timers' = s.timers
    /\ calls' = s.calls
    /\ lastAct' = [op |-> op, noop |-> noop, res |-> r, emit |-> f.emit,
                   thrown |-> f.thrown, rejected |-> rejected,
                   cancelled |-> Cancelled(before, s.timers)]
    /\ UNCHANGED <<lvars, bvars>>

\* no costa.login command has been run
NoLogin == [ok |-> FALSE, auth_url |-> "none", timeout_seconds |-> << >>]
LoginIdle ==
    /\ loginPhase = "idle"
    /\ loginResult = NoLogin
    /\ loginTimers = {}
    /\ loginCalls = EmptyBag
    /\ loginElapsed = 0
    /\ loginSignals = 0
    /\ loginAct = [op |-> "init", res |-> NoRes, shown |-> "none"]

\* ---------------------------------------------------------------- cli.ts
\* strings are sequences of tokens; these tokens are white space
WhiteSpace == {" ", "\n"}

RECURSIVE TrimLeft(_)
TrimLeft(s) == IF s # << >> /\ Head(s) \in WhiteSpace THEN TrimLeft(Tail(s)) ELSE s
RECURSIVE TrimRight(_)
TrimRight(s) ==
    IF s # << >> /\ s[Len(s)] \in WhiteSpace THEN TrimRight(SubSeq(s, 1, Len(s) - 1)) ELSE s
\* s.trim()
Trim(s) == TrimRight(TrimLeft(s))

\* s.includes(tok)
Includes(s, tok) == \E i \in DOMAIN s : s[i] = tok

\* segs.join(sep); path.join of segments that need no normalising
RECURSIVE Join(_, _)
Join(sep, segs) ==
    IF Len(segs) <= 1 THEN segs
    ELSE <<Head(segs), sep>> \o Join(sep, Tail(segs))

\* path.sep of the host
PathSep(plat) == IF plat = "win32" THEN "\\" ELSE "/"

\* context?.extensionPath ?? context?.extensionUri?.fsPath
ExtRoot(c) == Coalesce(c.extensionPath, c.fsPath)

\* the extensionContext values: never set, set without a root, set
NoContext == [set |-> FALSE, extensionPath |-> Undefined, fsPath |-> Undefined]
Contexts ==
    {NoContext} \cup
    [set : {TRUE}, extensionPath : {Undefined, "", "extroot"}, fsPath : {Undefined, "uriroot"}]

\* !extRoot
NoRoot(root) == root \in {Undefined, ""}

\* getBundledCliPath with the architecture test reversed
GetBundledCliPathArchSwapped(plat, ar, root) ==
    IF plat = "darwin" THEN Join(PathSep(plat), <<root, "res", "bin", "darwin-universal", "costa">>)
    ELSE IF plat = "win32" THEN Join(PathSep(plat), <<root, "res", "bin", "win32-x64", "costa.exe">>)
    ELSE IF ar = "x64" THEN Join(PathSep(plat), <<root, "res", "bin", "linux-arm64", "costa">>)
    ELSE Join(PathSep(plat), <<root, "res", "bin", "linux-x64", "costa">>)

\* getBundledCliPath(context) for a context with a root
GetBundledCliPath(plat, ar, root) ==
    IF plat = "darwin" THEN Join(PathSep(plat), <<root, "res", "bin", "darwin-universal", "costa">>)
    ELSE IF plat = "win32" THEN Join(PathSep(plat), <<root, "res", "bin", "win32-x64", "costa.exe">>)
    ELSE IF ar = "arm64" THEN Join(PathSep(plat), <<root, "res", "bin", "linux-arm64", "costa">>)
    ELSE Join(PathSep(plat), <<root, "res", "bin", "linux-x64", "costa">>)

\* expectedBundledBinaryPath() of the test suite, with root = process.cwd()
ExpectedBundledBinaryPath(plat, ar, root) ==
    IF plat = "darwin" THEN Join(PathSep(plat), <<root, "res", "bin", "darwin-universal", "costa">>)
    ELSE IF plat = "win32" THEN Join(PathSep(plat), <<root, "res", "bin", "win32-x64", "costa.exe">>)
    ELSE IF ar = "arm64" THEN Join(PathSep(plat), <<root, "res", "bin", "linux-arm64", "costa">>)
    ELSE Join(PathSep(plat), <<root, "res", "bin", "linux-x64", "costa">>)

\* the fallback name
Costa == <<"costa">>

\* errors are told apart by their message
Err(message) == [message |-> message]
NoErr == Err(<< >>)
ContextErr == Err(<<"CLI context not initialized. Call setContext() first.">>)
RootErr == Err(<<"extension root path not available">>)
CliNotFoundErr ==
    Err(<<"Costa CLI not found. Please reinstall the extension or install costa CLI manually.">>)
SyntaxErr == Err(<<"SyntaxError: ", "Unexpected token">>)

\* the argument vector of each facade operation
FacadeOps == {"login", "status", "token", "logout"}
Args(op) == IF op = "logout" THEN <<"logout">> ELSE <<op, "--format", "json">>

\* what execFile hands its callback as err: null, a spawn error, or
\* "Command failed" for a non-zero exit and for a child killed at the timeout
NoChildErr == [isErr |-> FALSE, message |-> << >>, killed |-> FALSE]
SpawnErr(bin, errno) ==
    [isErr |-> TRUE, message |-> <<"spawn ">> \o bin \o <<" ", errno>>, killed |-> FALSE]
FailedErr(bin, args, stderr, killed) ==
    [isErr |-> TRUE,
     message |-> <<"Command failed: ">> \o bin \o <<" ">> \o Join(" ", args) \o <<"\n">> \o stderr,
     killed |-> killed]

\* String(err)
ErrString(e) == <<"Error: ">> \o e.message

\* run() before the child exists: it throws, or picks the binary
RunPrepare(c, plat, ar, exists) ==
    IF ~c.set THEN [ok |-> FALSE, error |-> ContextErr, bin |-> << >>, chmod |-> FALSE]
    ELSE IF NoRoot(ExtRoot(c))
    THEN [ok |-> FALSE, error |-> RootErr, bin |-> << >>, chmod |-> FALSE]
    ELSE IF exists
    THEN [ok |-> TRUE, error |-> NoErr, bin |-> GetBundledCliPath(plat, ar, ExtRoot(c)),
          chmod |-> plat # "win32"]
    ELSE [ok |-> TRUE, error |-> NoErr, bin |-> Costa, chmod |-> FALSE]

\* the execFile callback of run()
RunCallback(bin, e, stdout, stderr) ==
    IF e.isErr
    THEN LET msg == Trim(stderr)
         IN  IF Includes(e.message, "ENOENT") /\ bin = Costa
             THEN [ok |-> FALSE, error |-> CliNotFoundErr, stdout |-> << >>, stderr |-> << >>]
             ELSE [ok |-> FALSE,
                   error |-> Err(IF msg # << >> THEN ErrString(e) \o <<"\n">> \o msg
                                 ELSE ErrString(e)),
                   stdout |-> << >>, stderr |-> << >>]
    ELSE [ok |-> TRUE, error |-> NoErr, stdout |-> stdout, stderr |-> stderr]

\* texts the child writes to stdout: JSON documents and text that is none
ValidJson == {<<"{", "\"logged_in\"", ":", "true", "}">>}
Stdouts == ValidJson \cup {<< >>, <<"{", "\"logged_in\"", ":">>}
\* texts the child writes to stderr
Stderrs == {<< >>, <<" ", "boom", "\n">>, <<"ENOENT", ": no such file or directory">>}

\* JSON.parse(stdout)
JsonParse(s) ==
    IF s \in ValidJson THEN [ok |-> TRUE, value |-> <<"parsed", s>>, error |-> NoErr]
    ELSE [ok |-> FALSE, value |-> << >>, error |-> SyntaxErr]

\* a facade operation whose catch block returns instead of throwing
FacadeSwallows(op, r) ==
    IF ~r.ok THEN [ok |-> TRUE, value |-> << >>, error |-> NoErr]
    ELSE IF op = "logout" THEN [ok |-> TRUE, value |-> << >>, error |-> NoErr]
    ELSE IF r.stdout \in ValidJson
    THEN [ok |-> TRUE, value |-> <<"parsed", r.stdout>>, error |-> NoErr]
    ELSE [ok |-> TRUE, value |-> << >>, error |-> NoErr]

\* login / status / token / logout once run() has settled with r:
\* try { parse and return } catch { log; throw error }
Facade(op, r) ==
    IF ~r.ok THEN [ok |-> FALSE, value |-> << >>, error |-> r.error]
    ELSE IF op = "logout" THEN [ok |-> TRUE, value |-> << >>, error |-> NoErr]
    ELSE JsonParse(r.stdout)

\* no facade call has been made
NoChild == [kind |-> "none", errno |-> "", code |-> 0, stdout |-> << >>, stderr |-> << >>]
NoRun == [ok |-> FALSE, error |-> NoErr, stdout |-> << >>, stderr |-> << >>]
NoFac == [ok |-> FALSE, value |-> << >>, error |-> NoErr]
BridgeIdleProc ==
    [phase |-> "idle", op |-> "none", bin |-> << >>, chmod |-> FALSE, age |-> 0, alive |-> FALSE]
BridgeIdle ==
    /\ proc = BridgeIdleProc
    /\ child = NoChild
    /\ runResult = NoRun
    /\ facResult = NoFac

\* the host of the UsageStream and login specifications
BridgeHost ==
    /\ platform = "linux" /\ arch = "x64"
    /\ ctx = [set |-> TRUE, extensionPath |-> "extroot", fsPath |-> Undefined]
    /\ bundledExists = TRUE /\ onPath = TRUE

\* a UsageStream just constructed
StreamIdle ==
    /\ isConnecting = FALSE
    /\ pollInterval = NoTimer
    /\ reconnectTimeout = NoTimer
    /\ timers = {}
    /\ calls = EmptyBag
    /\ stopped = FALSE
    /\ lastAct = [op |-> "init", noop |-> FALSE, res |-> NoRes, emit |-> NoEmit,
                  thrown |-> FALSE, rejected |-> FALSE, cancelled |-> 0]

Init == StreamIdle /\ LoginIdle /\ BridgeHost /\ BridgeIdle

\* a caller (activation, the login poller) calls usageStream.connect()
CallerConnect ==
    /\ Install(Connect(St), "connect", isConnecting, NoRes, NoFetch, FALSE, timers)
    /\ stopped' = FALSE

\* a caller (costa.logout, deactivation) calls usageStream.disconnect()
CallerDisconnect ==
    /\ Install(Disconnect(St), "disconnect", FALSE, NoRes, NoFetch, FALSE, timers)
    /\ stopped' = TRUE

\* costa.refreshPoints calls usageStream.fetchUsageData()
ManualFetch ==
    /\ InFlight(calls, {"manual"}) < MaxManual
    /\ Install(StartCall(St, "manual"), "manualFetch", FALSE, NoRes, NoFetch, FALSE, timers)
    /\ UNCHANGED stopped

\* one second passes: no timer is due and no call has to end first
Tick ==
    /\ \A t \in timers : t.rem > 0
    /\ \A c \in BagToSet(calls) : c.age < MaxAge
    /\ Install([St EXCEPT
            !.timers = {[t EXCEPT !.rem = @ - 1] : t \in timers},
            !.calls = [d \in {[c EXCEPT !.age = @ + 1] : c \in BagToSet(calls)} |->
                          calls[[d EXCEPT !.age = @ - 1]]]],
          "tick", FALSE, NoRes, NoFetch, FALSE, timers)
    /\ UNCHANGED stopped

\* the interval callback of setupPolling fires and starts a fetch
PollTick ==
    \E t \in timers :
        /\ t.kind = "poll" /\ t.rem = 0
        /\ Install(StartCall([St EXCEPT !.timers =
                        (@ \ {t}) \cup {[t EXCEPT !.rem = PollIntervalSec]}], "poll"),
                   "pollTick", FALSE, NoRes, NoFetch, FALSE, timers)
        /\ UNCHANGED stopped

\* the timeout callback of scheduleReconnect fires and calls connect()
ReconnectFire ==
    \E t \in timers :
        /\ t.kind = "reconnect" /\ t.rem = 0
        /\ Install(Connect([St EXCEPT !.timers = @ \ {t}]),
                   "reconnectFire", isConnecting, NoRes, NoFetch, FALSE, timers \ {t})
        /\ UNCHANGED stopped

\* cli.status() of call c may settle with r now: a call that reached the
\* bridge timeout is killed and rejects
Settles(c, r) == c.age >= RunTimeoutSec => r = StatusErr

\* the fetch awaited by connect() settles and connect() runs to its end
ConnectFetchDone ==
    \E c \in BagToSet(calls), r \in StatusOutcomes :
        /\ c.kind = "connect" /\ Settles(c, r)
        /\ LET f == FetchUsageData(r)
               out == ConnectResume(EndCall(St, c), f)
           IN  Install(out.st, "connectDone", FALSE, r, f, out.rejected, timers)
        /\ UNCHANGED stopped

\* the fetch started by a poll tick settles
PollFetchDone ==
    \E c \in BagToSet(calls), r \in StatusOutcomes :
        /\ c.kind = "poll" /\ Settles(c, r)
        /\ LET f == FetchUsageData(r)
               out == PollCallback(EndCall(St, c), f)
           IN  Install(out.st, "pollDone", FALSE, r, f, out.rejected, timers)
        /\ UNCHANGED stopped

\* the fetch started by costa.refreshPoints settles; its caller gets the result
ManualFetchDone ==
    \E c \in BagToSet(calls), r \in StatusOutcomes :
        /\ c.kind = "manual" /\ Settles(c, r)
        /\ LET f == FetchUsageData(r)
               out == RefreshPoints(EndCall(St, c), f)
           IN  Install(out.st, "manualDone", FALSE, r, f, out.rejected, timers)
        /\ UNCHANGED stopped

Next ==
    \/ CallerConnect
    \/ CallerDisconnect
    \/ ManualFetch
    \/ Tick
    \/ PollTick
    \/ ReconnectFire
    \/ ConnectFetchDone
    \/ PollFetchDone
    \/ ManualFetchDone

Spec == Init /\ [][Next]_vars

\* Time passes, due timers fire and every status subprocess ends (the bridge
\* kills it at the timeout at the latest); callers owe nothing.
FairSpec ==
    /\ Spec
    /\ WF_vars(Tick)
    /\ WF_vars(PollTick)
    /\ WF_vars(ReconnectFire)
    /\ WF_vars(ConnectFetchDone)
    /\ WF_vars(PollFetchDone)
    /\ WF_vars(ManualFetchDone)

\* ------------------------------------------------- costa.login and its poller
\* if (x): a missing or empty string is falsy
Truthy(x) == x \notin {Undefined, ""}

\* outcomes of cli.login(): a rejection, or a parsed LoginResult.
\* timeout_seconds is << >> when missing and <<n>> when present.
LoginErr == [ok |-> FALSE, auth_url |-> Undefined, timeout_seconds |-> << >>]
LoginResults ==
    [ok : {TRUE}, auth_url : {Undefined, "", "https://auth"},
     timeout_seconds : {<< >>, <<9>>, <<30>>}]
LoginOutcomes == LoginResults \cup {LoginErr}

\* loginResult.timeout_seconds ?? 600
LoginTimeoutSeconds(lr) ==
    IF lr.timeout_seconds = << >> THEN DefaultLoginTimeoutSec ELSE lr.timeout_seconds[1]

\* the command going on to the browser whenever cli.login() resolved
LoginAfterLoginNoUrlTest(lr) ==
    IF ~lr.ok THEN [phase |-> "failed", shown |-> "error"]
    ELSE [phase |-> "open", shown |-> "none"]

\* the command once cli.login() has settled with lr: it goes on to open the
\* browser, or shows an error and returns
LoginAfterLogin(lr) ==
    IF ~lr.ok THEN [phase |-> "failed", shown |-> "error"]
    ELSE IF Truthy(lr.auth_url) THEN [phase |-> "open", shown |-> "none"]
    ELSE [phase |-> "failed", shown |-> "error"]

\* the command once env.openExternal() has settled: setInterval and setTimeout,
\* or the catch block
LoginAfterOpen(lr, opened) ==
    IF opened
    THEN [phase |-> "started", shown |-> "none",
          timers |-> {[kind |-> "loginPoll", rem |-> LoginPollSec],
                      [kind |-> "loginTimeout", rem |-> LoginTimeoutSeconds(lr)]}]
    ELSE [phase |-> "failed", shown |-> "error", timers |-> {}]

\* the interval callback giving up on a failed cli.status()
LoginOnStatusStopsOnError(ts, r) ==
    IF ~r.ok \/ r.logged_in
    THEN [timers |-> {x \in ts : x.kind # "loginPoll"}, signal |-> r.ok]
    ELSE [timers |-> ts, signal |-> FALSE]

\* the interval callback once its cli.status() has settled with r
LoginOnStatus(ts, r) ==
    IF r.ok /\ r.logged_in
    THEN [timers |-> {x \in ts : x.kind # "loginPoll"}, signal |-> TRUE]
    ELSE [timers |-> ts, signal |-> FALSE]

\* the timeout callback that only logs
LoginOnTimeoutNoClear(ts) == ts

\* the timeout callback: clearInterval(pollInterval)
LoginOnTimeout(ts) == {x \in ts : x.kind # "loginPoll"}

\* the user runs costa.login: cli.login() is issued and awaited
LoginCommand ==
    /\ loginPhase = "idle"
    /\ loginPhase' = "login"
    /\ loginAct' = [op |-> "loginCommand", res |-> NoRes, shown |-> "info"]
    /\ UNCHANGED <<loginResult, loginTimers, loginCalls, loginElapsed, loginSignals, uvars, bvars>>

\* cli.login() settles
LoginSettles ==
    \E lr \in LoginOutcomes :
        /\ loginPhase = "login"
        /\ loginResult' = lr
        /\ loginPhase' = LoginAfterLogin(lr).phase
        /\ loginAct' = [op |-> "loginSettles", res |-> NoRes, shown |-> LoginAfterLogin(lr).shown]
        /\ UNCHANGED <<loginTimers, loginCalls, loginElapsed, loginSignals, uvars, bvars>>

\* env.openExternal() settles (opened) or rejects
LoginOpened ==
    \E opened \in BOOLEAN :
        /\ loginPhase = "open"
        /\ LET out == LoginAfterOpen(loginResult, opened)
           IN  /\ loginPhase' = out.phase
               /\ loginTimers' = out.timers
               /\ loginAct' = [op |-> "loginOpened", res |-> NoRes, shown |-> out.shown]
        /\ UNCHANGED <<loginResult, loginCalls, loginElapsed, loginSignals, uvars, bvars>>

\* one second passes while the poller has a timer armed or a call in flight
LoginTick ==
    /\ loginTimers # {} \/ loginCalls # EmptyBag
    /\ \A x \in loginTimers : x.rem > 0
    /\ \A c \in BagToSet(loginCalls) : c.age < MaxAge
    /\ loginTimers' = {[x EXCEPT !.rem = @ - 1] : x \in loginTimers}
    /\ loginCalls' = [d \in {[c EXCEPT !.age = @ + 1] : c \in BagToSet(loginCalls)} |->
                         loginCalls[[d EXCEPT !.age = @ - 1]]]
    /\ loginElapsed' = loginElapsed + 1
    /\ loginAct' = [op |-> "tick", res |-> NoRes, shown |-> "none"]
    /\ UNCHANGED <<loginPhase, loginResult, loginSignals, uvars, bvars>>

\* the poller's interval callback fires and issues cli.status()
LoginPollTick ==
    \E x \in loginTimers :
        /\ x.kind = "loginPoll" /\ x.rem = 0
        /\ loginTimers' = (loginTimers \ {x}) \cup {[x EXCEPT !.rem = LoginPollSec]}
        /\ loginCalls' = loginCalls (+) SetToBag({[kind |-> "loginPoll", age |-> 0]})
        /\ loginAct' = [op |-> "loginPollTick", res |-> NoRes, shown |-> "none"]
        /\ UNCHANGED <<loginPhase, loginResult, loginElapsed, loginSignals, uvars, bvars>>

\* the cli.status() of a poller tick settles; on logged_in the poller stops
\* its interval, updates the UI and calls usageStream.connect()
LoginStatusDone ==
    \E c \in BagToSet(loginCalls), r \in StatusOutcomes :
        /\ Settles(c, r)
        /\ LET out == LoginOnStatus(loginTimers, r)
           IN  /\ loginTimers' = out.timers
               /\ loginSignals' = IF out.signal THEN loginSignals + 1 ELSE loginSignals
               /\ loginAct' = [op |-> "loginStatusDone", res |-> r,
                               shown |-> IF out.signal THEN "info" ELSE "none"]
        /\ loginCalls' = loginCalls (-) SetToBag({c})
        /\ UNCHANGED <<loginPhase, loginResult, loginElapsed, uvars, bvars>>

\* the command's timeout callback fires
LoginTimeoutFire ==
    \E x \in loginTimers :
        /\ x.kind = "loginTimeout" /\ x.rem = 0
        /\ loginTimers' = LoginOnTimeout(loginTimers \ {x})
        /\ loginAct' = [op |-> "loginTimeout", res |-> NoRes, shown |-> "none"]
        /\ UNCHANGED <<loginPhase, loginResult, loginCalls, loginElapsed, loginSignals, uvars, bvars>>

LoginNext ==
    \/ LoginCommand
    \/ LoginSettles
    \/ LoginOpened
    \/ LoginTick
    \/ LoginPollTick
    \/ LoginStatusDone
    \/ LoginTimeoutFire

LoginSpec == Init /\ [][LoginNext]_vars

\* ------------------------------------------------------- cli.ts, one call
\* every host, context and disk the extension can run on
BridgeInit ==
    /\ StreamIdle /\ LoginIdle /\ BridgeIdle
    /\ platform \in {"darwin", "win32", "linux"}
    /\ arch \in {"x64", "arm64"}
    /\ ctx \in Contexts
    /\ bundledExists \in BOOLEAN
    /\ onPath \in BOOLEAN

\* run() and the facade operation settle together: the promise chain from the
\* execFile callback to the caller of the facade has no other code in between
BridgeSettle(c, r) ==
    /\ child' = c
    /\ runResult' = r
    /\ facResult' = Facade(proc.op, r)
    /\ proc' = [proc EXCEPT !.phase = "done", !.alive = FALSE]
    /\ UNCHANGED <<platform, arch, ctx, bundledExists, onPath, uvars, lvars>>

\* a caller calls login(), status(), token() or logout()
FacadeCall ==
    /\ proc.phase = "idle"
    /\ \E op \in FacadeOps :
         LET prep == RunPrepare(ctx, platform, arch, bundledExists)
         IN  IF prep.ok
             THEN /\ proc' = [phase |-> "running", op |-> op, bin |-> prep.bin,
                              chmod |-> prep.chmod, age |-> 0, alive |-> TRUE]
                  /\ UNCHANGED <<child, runResult, facResult>>
             ELSE LET r == [ok |-> FALSE, error |-> prep.error,
                            stdout |-> << >>, stderr |-> << >>]
                  IN  /\ proc' = [BridgeIdleProc EXCEPT !.phase = "done", !.op = op]
                      /\ child' = NoChild
                      /\ runResult' = r
                      /\ facResult' = Facade(op, r)
    /\ UNCHANGED <<platform, arch, ctx, bundledExists, onPath, uvars, lvars>>

\* the OS can start the binary
Found == proc.bin # Costa \/ onPath

\* one second passes while the child runs
BridgeTick ==
    /\ proc.phase = "running" /\ Found
    /\ proc.age < RunTimeoutSec
    /\ proc' = [proc EXCEPT !.age = @ + 1]
    /\ UNCHANGED <<platform, arch, ctx, bundledExists, onPath, child, runResult, facResult,
                    uvars, lvars>>

\* the child could not be started
SpawnFails ==
    /\ proc.phase = "running" /\ proc.age = 0
    /\ \E errno \in {"ENOENT", "EACCES"} :
         /\ ~Found => errno = "ENOENT"
         /\ BridgeSettle([NoChild EXCEPT !.kind = "spawn", !.errno = errno],
                         RunCallback(proc.bin, SpawnErr(proc.bin, errno), << >>, << >>))

\* the child exits within the time limit
ChildExits ==
    /\ proc.phase = "running" /\ Found
    /\ proc.age < RunTimeoutSec
    /\ \E code \in {0, 1}, out \in Stdouts, errout \in Stderrs :
         BridgeSettle([NoChild EXCEPT !.kind = "exit", !.code = code,
                                      !.stdout = out, !.stderr = errout],
                      RunCallback(proc.bin,
                                  IF code = 0 THEN NoChildErr
                                  ELSE FailedErr(proc.bin, Args(proc.op), errout, FALSE),
                                  out, errout))

\* the time limit passes: execFile kills the child and reports the failure
ChildTimesOut ==
    /\ proc.phase = "running" /\ Found
    /\ proc.age = RunTimeoutSec
    /\ \E out \in Stdouts, errout \in Stderrs :
         BridgeSettle([NoChild EXCEPT !.kind = "timeout", !.stdout = out, !.stderr = errout],
                      RunCallback(proc.bin,
                                  FailedErr(proc.bin, Args(proc.op), errout, TRUE),
                                  out, errout))

BridgeNext ==
    \/ FacadeCall
    \/ BridgeTick
    \/ SpawnFails
    \/ ChildExits
    \/ ChildTimesOut

BridgeSpec == BridgeInit /\ [][BridgeNext]_vars

\* ------------------------------------------------------------------- claims
Armed(ts, kind) == {t \in ts : t.kind = kind}
FetchDone == {"connectDone", "pollDone", "manualDone"}

\* C1: after disconnect() has returned (and before a caller calls connect()
\* again) no timer callback of the UsageStream fires, so it issues no status
\* invocation, also when a fetch was in flight at the disconnect.
C1_NoCallbackAfterDisconnect ==
    stopped => lastAct.op \notin {"pollTick", "reconnectFire"}

\* C2: while a connect() call's fetchUsageData is pending, further connect()
\* calls start no fetch: at most one fetch of connect() is in flight.
C2_OneConnectFetch == InFlight(calls, {"connect"}) <= 1

\* a connect() call returned at its guard while the first call's fetch is pending
C2_Witness ==
    /\ lastAct.op \in {"connect", "reconnectFire"} /\ lastAct.noop
    /\ InFlight(calls, {"connect"}) = 1

\* C3: at most one poll timer and at most one reconnect timer are armed, each
\* the one its field refers to; a failed fetch leaves exactly one pending
\* reconnect timer, freshly armed, whatever was pending before.
C3_OneTimerOfEachKind ==
    /\ Cardinality(Armed(timers, "poll")) <= 1
    /\ Cardinality(Armed(timers, "reconnect")) <= 1
    /\ \A t \in timers : t.id = IF t.kind = "poll" THEN pollInterval ELSE reconnectTimeout
    /\ (lastAct.op \in {"connectDone", "pollDone"} /\ lastAct.thrown) =>
            Armed(timers, "reconnect") =
                {[id |-> reconnectTimeout, kind |-> "reconnect", rem |-> ReconnectDelaySec]}

\* a fetch of a poll tick failed while a reconnect was pending, and replaced it
C3_Witness ==
    /\ lastAct.op = "pollDone" /\ lastAct.thrown /\ lastAct.cancelled = 1
    /\ Cardinality(Armed(timers, "reconnect")) = 1
    /\ Cardinality(Armed(timers, "poll")) = 1

\* C4: a poll tick never starts a fetchUsageData while the fetch of an earlier
\* tick is still pending: at most one status call of the poll timer is in flight.
C4_OnePollFetchInFlight == InFlight(calls, {"poll"}) <= 1

\* C5: when the fetch of a poll tick has failed, the poll timer is cancelled
\* and exactly one reconnect timer is pending.
C5_FailedPollStopsPolling ==
    (lastAct.op = "pollDone" /\ lastAct.thrown) =>
        /\ Armed(timers, "poll") = {}
        /\ Cardinality(Armed(timers, "reconnect")) = 1

\* C6: a pending reconnect timer does not stay pending for ever: left to
\* itself (no caller calls connect() or disconnect() from then on) the
\* UsageStream eventually fires it, also when status keeps failing.
C6_ReconnectEventuallyFires ==
    (Armed(timers, "reconnect") # {}) ~>
        (Armed(timers, "reconnect") = {} \/ lastAct.op \in {"connect", "disconnect"})

C8_FlagTracksConnect == isConnecting <=> InFlight(calls, {"connect"}) = 1

\* a connect() whose fetch failed after a disconnect() has returned
C8_Witness ==
    lastAct.op = "connectDone" /\ lastAct.thrown /\ stopped /\ ~isConnecting

\* C9: when disconnect() returns no timer is armed and both handles are null,
\* and a second disconnect() changes nothing.
C9_DisconnectIdle ==
    lastAct.op = "disconnect" =>
        /\ timers = {}
        /\ pollInterval = NoTimer /\ reconnectTimeout = NoTimer
        /\ Disconnect(St) = St

\* a disconnect() that cancelled a poll timer and a reconnect timer
C9_Witness == lastAct.op = "disconnect" /\ lastAct.cancelled = 2

\* C10: a fetchUsageData emits a usage event only for a status that succeeded
\* with logged_in = true; logged_in = false ends it with no event and no
\* error; a failed status call emits nothing and is rethrown.
C10_EmitOnlyWhenLoggedIn ==
    lastAct.op \in FetchDone =>
        /\ (lastAct.emit # NoEmit => lastAct.res.ok /\ lastAct.res.logged_in)
        /\ (lastAct.res.ok /\ ~lastAct.res.logged_in =>
                lastAct.emit = NoEmit /\ ~lastAct.thrown)
        /\ (~lastAct.res.ok => lastAct.emit = NoEmit /\ lastAct.thrown)

\* a manual refresh that found the user logged out
C10_Witness ==
    /\ lastAct.op = "manualDone"
    /\ lastAct.res.ok /\ ~lastAct.res.logged_in /\ lastAct.emit = NoEmit

LoginArmed(kind) == \E x \in loginTimers : x.kind = kind
\* the command armed its timers and the timeout callback has run
LoginTimedOut == loginPhase = "started" /\ ~LoginArmed("loginTimeout")

\* C12: one login attempt signals success at most once, also for status
\* calls that were in flight when the first success arrived.
C12_SuccessSignalledOnce == loginSignals <= 1

\* C13: the timeout callback runs timeout_seconds (600 when absent) after the
\* timers were armed; from then on the interval is cancelled and no poller
\* tick starts a status call.
C13_TimeoutStopsPolling ==
    /\ loginAct.op = "loginTimeout" =>
            loginElapsed = (IF loginResult.timeout_seconds = << >>
                            THEN DefaultLoginTimeoutSec
                            ELSE loginResult.timeout_seconds[1])
    /\ LoginTimedOut => ~LoginArmed("loginPoll") /\ loginAct.op # "loginPollTick"

\* the default timeout fired on a poller that never saw logged_in = true
C13_Witness ==
    /\ loginAct.op = "loginTimeout" /\ loginSignals = 0
    /\ loginResult.timeout_seconds = << >> /\ loginElapsed = DefaultLoginTimeoutSec

\* C14: the timeout callback never runs for an attempt that has already
\* signalled success.
C14_NoTimeoutAfterSuccess == loginAct.op = "loginTimeout" => loginSignals = 0

\* C15: a failed status call of a poller tick leaves the timers as they are;
\* the interval is cancelled only by a status with logged_in = true or by
\* the timeout callback.
C15_ErrorsKeepPolling ==
    [][/\ (loginAct'.op = "loginStatusDone" /\ ~loginAct'.res.ok) =>
              loginTimers' = loginTimers
       /\ (LoginArmed("loginPoll") /\ ~(\E x \in loginTimers' : x.kind = "loginPoll")) =>
              \/ loginAct'.op = "loginTimeout"
              \/ /\ loginAct'.op = "loginStatusDone"
                 /\ loginAct'.res.ok /\ loginAct'.res.logged_in]_vars

\* the status call of the second tick or a later one failed and the interval
\* is still armed
C15_Witness ==
    /\ loginAct.op = "loginStatusDone" /\ ~loginAct.res.ok
    /\ LoginArmed("loginPoll") /\ loginElapsed >= 2 * LoginPollSec

\* C16: timers are armed and status calls issued only after cli.login()
\* resolved with an auth_url; when it rejected or returned none, nothing is
\* armed or issued and an error is shown.
C16_PollerNeedsAuthUrl ==
    /\ (loginTimers # {} \/ loginCalls # EmptyBag \/ loginPhase = "started") =>
            loginResult.ok /\ loginResult.auth_url = "https://auth"
    /\ (loginPhase \notin {"idle", "login"}
            /\ (~loginResult.ok \/ loginResult.auth_url \in {Undefined, ""})) =>
            /\ loginPhase = "failed"
            /\ loginTimers = {} /\ loginCalls = EmptyBag /\ loginElapsed = 0
            /\ loginAct.op = "loginSettles" /\ loginAct.shown = "error"

\* cli.login() resolved without an auth_url
C16_Witness ==
    loginPhase = "failed" /\ loginResult.ok /\ loginResult.auth_url = Undefined

\* C17: on every supported platform/architecture pair binary resolution returns
\* the extension root joined with res, bin, the pair's subdirectory and the
\* binary name: darwin-universal/costa on macOS, win32-x64/costa.exe on
\* Windows, linux-arm64/costa on Linux ARM64, linux-x64/costa on Linux x64;
\* only the Windows name ends in .exe. The test suite's helper agrees.
SupportedPairs ==
    {<<"darwin", "x64">>, <<"darwin", "arm64">>, <<"win32", "x64">>,
     <<"linux", "x64">>, <<"linux", "arm64">>}
SpecSubdir(plat, ar) ==
    IF plat = "darwin" THEN "darwin-universal"
    ELSE IF plat = "win32" THEN "win32-x64"
    ELSE IF ar = "arm64" THEN "linux-arm64" ELSE "linux-x64"
SpecBinaryName(plat) == IF plat = "win32" THEN "costa.exe" ELSE "costa"
Resolved == proc.phase # "idle" /\ proc.bin \notin {<< >>, Costa}
C17_BundledPath ==
    (<<platform, arch>> \in SupportedPairs /\ ctx.set /\ ~NoRoot(ExtRoot(ctx))) =>
        LET root == ExtRoot(ctx)
            got == GetBundledCliPath(platform, arch, root)
            s == PathSep(platform)
        IN  /\ got = <<root, s, "res", s, "bin", s, SpecSubdir(platform, arch), s,
                       SpecBinaryName(platform)>>
            /\ got = ExpectedBundledBinaryPath(platform, arch, root)
            /\ Resolved => proc.bin = got
C17_Witness ==
    /\ Resolved /\ platform = "linux" /\ arch = "arm64"
    /\ proc.bin[7] = "linux-arm64"

\* C18: run uses the bundled path when it exists and the name costa otherwise;
\* it fails with the CliNotFound error exactly when the fallback name was used
\* and the binary could not be found, and with the generic error, which embeds
\* the OS error and stderr, on every other spawn failure or non-zero exit.
RunFailed == proc.phase = "done" /\ child.kind # "none" /\ ~runResult.ok
C18_NotFoundOnlyWhenMissing ==
    /\ proc.phase # "idle" /\ proc.bin # << >> => (proc.bin = Costa <=> ~bundledExists)
    /\ RunFailed =>
          (runResult.error = CliNotFoundErr
             <=> (proc.bin = Costa /\ child.kind = "spawn" /\ child.errno = "ENOENT"))

\* C19: a run whose child exceeds the 15 second limit is killed and fails with
\* an error that no non-zero exit and no missing binary produces.
NonZeroExitErrors(bin, op) ==
    {RunCallback(bin, FailedErr(bin, Args(op), errout, FALSE), out, errout).error :
        out \in Stdouts, errout \in Stderrs}
C19_TimeoutIsDistinct ==
    (proc.phase = "done" /\ child.kind = "timeout") =>
        /\ ~proc.alive /\ ~runResult.ok
        /\ runResult.error # CliNotFoundErr
        /\ runResult.error \notin NonZeroExitErrors(proc.bin, proc.op)

\* C20: login, status, token and logout never swallow an error: an error of
\* run and a failure to parse stdout reach the caller as that same error, and
\* no operation returns a result when its run failed.
C20_FacadePropagates ==
    proc.phase = "done" =>
        /\ ~runResult.ok => (~facResult.ok /\ facResult.error = runResult.error
                              /\ facResult.value = << >>)
        /\ (runResult.ok /\ proc.op # "logout" /\ runResult.stdout \notin ValidJson) =>
              (~facResult.ok /\ facResult.error = SyntaxErr)
        /\ facResult.ok => facResult.error = NoErr
C20_Witness ==
    /\ proc.phase = "done" /\ proc.op = "token"
    /\ child.kind = "exit" /\ child.code = 1
    /\ ~facResult.ok /\ facResult.error = runResult.error
    /\ Includes(facResult.error.message, "boom")

\* C21: a bridge failure inside a poll tick or a (re)connect attempt becomes
\* a reconnect decision: the reconnect timer is armed anew and no promise is
\* left rejected. A bridge failure inside a fetchUsageData that a caller
\* awaits rejects to that caller, and only such a failure does.
ReconnectJustArmed ==
    \E x \in Armed(timers, "reconnect") :
        x.id = reconnectTimeout /\ x.rem = ReconnectDelaySec
C21_ErrorsSwallowedAtCallbacks ==
    /\ lastAct.op \in FetchDone => (lastAct.thrown <=> ~lastAct.res.ok)
    /\ (lastAct.op \in {"pollDone", "connectDone"} /\ ~lastAct.res.ok) =>
          (~lastAct.rejected /\ ReconnectJustArmed)
    /\ lastAct.op = "reconnectFire" => ~lastAct.rejected
    /\ lastAct.op = "manualDone" => (lastAct.rejected <=> ~lastAct.res.ok)
C21_Witness ==
    /\ lastAct.op = "pollDone" /\ ~lastAct.res.ok
    /\ ~lastAct.rejected /\ ReconnectJustArmed

\* C22: once the login timeout has fired, success is never signalled for
\* that attempt: a status call that signals success does so while the
\* timeout timer is still armed.
C22_NoSuccessAfterTimeout ==
    (loginAct.op = "loginStatusDone" /\ loginAct.shown = "info") =>
        LoginArmed("loginTimeout")

\* C23: a started stream never stalls. A connect() call is in flight, the
\* poll interval is armed or a reconnect timer is pending after every step
\* other than disconnect() that began in such a state or is a call of
\* connect(); a reconnect that fires into a no-op connect() is such a step.
Active ==
    \/ InFlight(calls, {"connect"}) >= 1
    \/ Armed(timers, "poll") # {}
    \/ Armed(timers, "reconnect") # {}
C23_NeverStalls ==
    [][(lastAct'.op # "disconnect" /\ (Active \/ lastAct'.op \in {"connect", "reconnectFire"}))
          => Active']_vars
C23_Witness ==
    /\ lastAct.op = "reconnectFire" /\ lastAct.noop
    /\ Armed(timers, "reconnect") = {} /\ Armed(timers, "poll") = {}
    /\ InFlight(calls, {"connect"}) = 1

C25_ManualFetchFrame ==
    [][lastAct'.op \in {"manualFetch", "manualDone"} =>
          /\ timers' = timers
          /\ pollInterval' = pollInterval
          /\ reconnectTimeout' = reconnectTimeout
          /\ isConnecting' = isConnecting
          /\ InFlight(calls', {"connect", "poll"}) = InFlight(calls, {"connect", "poll"})]_vars
C25_Witness ==
    /\ lastAct.op = "manualDone" /\ lastAct.thrown /\ lastAct.rejected
    /\ Armed(timers, "poll") # {} /\ Armed(timers, "reconnect") = {}

====
